---- MODULE Spec2Model ----
(***************************************************************************)
(* Kube-9 control plane: the cluster store (nodes, pods), the sandbox      *)
(* runtime, the request handlers of routes/nodes.py and routes/pods.py and *)
(* the background loops of services/monitor.py.                            *)
(*                                                                         *)
(* Every request handler is one atomic step (one store transaction).  The  *)
(* sweeps, the reconciler tick and the reaper tick are one step each; the  *)
(* rescheduler tick is split at its commit points (one step per pod).      *)
(* Queries without ORDER BY are taken to return rows in primary-key order. *)
(***************************************************************************)
EXTENDS Integers, Sequences, FiniteSets, TLC

(* ------------------------------ bounds --------------------------------- *)
MaxNodes == 2
MaxPods == 2
MaxCpu == 2

(* -------------------------- program constants -------------------------- *)
max_heartbeat_interval == 120
STARTUP_GRACE_PERIOD == 30
max_recovery_attempts == 3

NoHandle == 0

VARIABLES
  nodes,              \* store: node id -> node row
  pods,               \* store: pod id -> pod row
  next_node_id,       \* auto-increment of nodes.id
  next_pod_id,        \* auto-increment of pods.id
  sandbox,            \* runtime: node container id -> "running" | "exited" | "absent"
  need_rescheduling,  \* DockerMonitor.need_rescheduling
  uptime,             \* now - DockerMonitor.startup_time, saturating at the grace period
  rs,                 \* position of the rescheduler loop inside its tick
  rc,                 \* position of the reconciler inside its branch on one node
  mon,                \* DockerMonitor.running and the rescheduler loop threads
  last                \* the step just taken: handler or loop, HTTP status, entity id

vars == <<nodes, pods, next_node_id, next_pod_id, sandbox, need_rescheduling, uptime, rs, rc,
          mon, last>>
store == <<nodes, pods, next_node_id, next_pod_id>>

(* ------------------------------ helpers -------------------------------- *)
Min(a, b) == IF a < b THEN a ELSE b

SetMin(S) == CHOOSE x \in S : \A y \in S : x <= y

Range(s) == {s[i] : i \in 1..Len(s)}

(* Rows of a query, in primary-key order *)
RECURSIVE Sorted(_)
Sorted(S) ==
  IF S = {} THEN <<>> ELSE <<SetMin(S)>> \o Sorted(S \ {SetMin(S)})

Resp(op, code, id) ==
  [op |-> op, code |-> code, id |-> id, arg |-> 0,
   should_stop_heartbeat |-> FALSE, should_terminate |-> FALSE]

Tick_(op) == Resp(op, 0, 0)

RemoveKey(f, k) == [x \in DOMAIN f \ {k} |-> f[x]]

add_pod_id_lost(ids, pod_id) == ids

(* Node.add_pod / Node.remove_pod on the JSON list _pod_ids *)
add_pod_id(ids, pod_id) ==
  IF pod_id \in Range(ids) THEN ids ELSE Append(ids, pod_id)

remove_pod_id_keep(ids, pod_id) == ids

remove_pod_id(ids, pod_id) ==
  IF pod_id \notin Range(ids) THEN ids
  ELSE LET i == SetMin({j \in 1..Len(ids) : ids[j] = pod_id})
       IN SubSeq(ids, 1, i - 1) \o SubSeq(ids, i + 1, Len(ids))

(* Node.__init__ as called by create_node: the constructor overrides      *)
(* health_status with "healthy" and takes cpu_cores_total from            *)
(* cpu_cores_avail; the column defaults fill the rest.                    *)
NewNode(name, node_type, cpu) ==
  [name |-> name,
   node_type |-> node_type,
   cpu_cores_avail |-> cpu,
   cpu_cores_total |-> cpu,
   health_status |-> "healthy",
   docker_container_id |-> NoHandle,
   kubelet_status |-> "running",
   container_runtime_status |-> "running",
   hb_age |-> 0,
   recovery_attempts |-> 0,
   pod_ids |-> <<>>]

(* ------------------------- sandbox driver ------------------------------ *)
container_exists(c) == c # NoHandle /\ c \in DOMAIN sandbox /\ sandbox[c] # "absent"

get_container_info(c) ==
  IF container_exists(c) THEN sandbox[c] ELSE "unknown"

(* stop_container: an existing container ends up exited unless the runtime *)
(* call fails; the call never raises.                                      *)
stop_container(sb, c, ok) ==
  IF ok /\ c \in DOMAIN sb /\ sb[c] # "absent" THEN [sb EXCEPT ![c] = "exited"] ELSE sb

remove_container(sb, c, ok) ==
  IF ok /\ c \in DOMAIN sb /\ sb[c] # "absent" THEN [sb EXCEPT ![c] = "absent"] ELSE sb

(* The rescheduler loop between ticks.  Inside a tick: failed_nodes is the  *)
(* list the tick queried, todo the failed nodes not yet reached, node and  *)
(* queue the failed node being drained and its pods still to handle;       *)
(* bound and aborted record, for the tick, the pods found on the failed    *)
(* nodes when it began and the pods whose run_pod call failed.             *)
Idle == [pc |-> "idle", failed_nodes |-> <<>>, todo |-> <<>>, node |-> 0,
         queue |-> <<>>, bound |-> {}, aborted |-> {}]

(* The reconciler between two node branches.  Inside a branch: node is    *)
(* the node at hand, row its row as refreshed at the start of the branch,  *)
(* status, exists and start_ok what the runtime answered so far; inflight  *)
(* is the heartbeat the node's sandbox sends during the branch and         *)
(* delivered tells whether it has been ingested.                           *)
RecoveryIdle ==
  [pc |-> "idle", node |-> 0, row |-> <<>>, inflight |-> <<>>, delivered |-> FALSE,
   status |-> "unknown", exists |-> FALSE, start_ok |-> FALSE]

(* The monitor after __init__: running is False and no loop thread exists. *)
(* loops holds, for every rescheduler thread that start() created, where   *)
(* the thread is: "head" (at `while self.running`, or asleep before it),   *)
(* "iterating" (inside the loop body, past the flag test) or "exited".     *)
(* Only the specification of start() and stop() follows the threads; the   *)
(* others take the monitor as started once (app.py) with a single loop.    *)
NotStarted == [running |-> FALSE, loops |-> <<>>]

(* ------------------------------- Init ---------------------------------- *)
Init ==
  /\ nodes = <<>>
  /\ pods = <<>>
  /\ next_node_id = 1
  /\ next_pod_id = 1
  /\ sandbox = <<>>
  /\ need_rescheduling = FALSE
  /\ uptime = 0
  /\ rs = Idle
  /\ rc = RecoveryIdle
  /\ mon = NotStarted
  /\ last = Tick_("init")

(* --------------------------- POST /nodes ------------------------------- *)
(* name = "" stands for a missing name; docker_ok is the outcome of        *)
(* create_node_container.                                                  *)
create_node(name, cpu, node_type, docker_ok) ==
  /\ next_node_id <= MaxNodes
  /\ UNCHANGED <<pods, next_pod_id, need_rescheduling, uptime, rs, rc, mon>>
  /\ IF name = "" \/ cpu <= 0 \/ node_type \notin {"worker", "master"}
       \/ \E n \in DOMAIN nodes : nodes[n].name = name
     THEN /\ last' = Resp("create_node", 400, 0)
          /\ UNCHANGED <<nodes, next_node_id, sandbox>>
     ELSE IF ~docker_ok
     THEN \* flush took an id, the container could not be created: rollback
          /\ last' = Resp("create_node", 500, 0)
          /\ next_node_id' = next_node_id + 1
          /\ UNCHANGED <<nodes, sandbox>>
     ELSE LET id == next_node_id IN
          /\ nodes' = nodes @@ (id :> [NewNode(name, node_type, cpu)
                                         EXCEPT !.docker_container_id = id])
          /\ sandbox' = sandbox @@ (id :> "running")
          /\ next_node_id' = id + 1
          /\ last' = Resp("create_node", 201, id)

(* --------------------- POST /nodes/{id}/heartbeat ---------------------- *)
(* payload is a record holding only the keys the sender put in the JSON    *)
(* body; the component statuses are flattened into "kubelet" and           *)
(* "container_runtime".  drv_ok is the outcome of the runtime calls.       *)
Has(payload, key) == key \in DOMAIN payload

IsPermanentlyFailed_never(node) == FALSE

(* The test that opens the permanently-failed branch of update_heartbeat *)
IsPermanentlyFailed(node) == node.health_status = "permanently_failed"

(* The reply to a heartbeat for a node id that is not in the store *)
NotFoundReply_nostop(node_id) == Resp("update_heartbeat", 404, node_id)

NotFoundReply(node_id) ==
  [Resp("update_heartbeat", 404, node_id) EXCEPT !.should_stop_heartbeat = TRUE]

HeartbeatRow(node, payload) ==
  LET health_status == IF Has(payload, "health_status")
                       THEN payload.health_status ELSE "healthy"
      n1 == [node EXCEPT !.hb_age = 0, !.health_status = health_status]
      n2 == IF Has(payload, "kubelet")
            THEN [n1 EXCEPT !.kubelet_status = payload.kubelet] ELSE n1
      n3 == IF Has(payload, "container_runtime")
            THEN [n2 EXCEPT !.container_runtime_status = payload.container_runtime]
            ELSE n2
      n4 == IF Has(payload, "cpu_cores_avail")
            THEN [n3 EXCEPT !.cpu_cores_avail = payload.cpu_cores_avail] ELSE n3
  IN IF Has(payload, "pod_ids") /\ n4.health_status # "permanently_failed"
     THEN [n4 EXCEPT !.pod_ids = payload.pod_ids] ELSE n4

(* The row a heartbeat commits for a permanently failed node whose sandbox *)
(* it has torn down: the handle is cleared, last_heartbeat is the request  *)
(* time, nothing is taken from the payload.                                *)
TeardownRow_keep(node) == [node EXCEPT !.hb_age = 0]

TeardownRow(node) == [node EXCEPT !.docker_container_id = NoHandle, !.hb_age = 0]

update_heartbeat(node_id, payload, drv_ok) ==
  /\ UNCHANGED <<pods, next_node_id, next_pod_id, uptime, rs, rc, mon>>
  /\ IF node_id \notin DOMAIN nodes
     THEN /\ last' = NotFoundReply(node_id)
          /\ UNCHANGED <<nodes, sandbox, need_rescheduling>>
     ELSE LET node == nodes[node_id] IN
       IF IsPermanentlyFailed(node)
       THEN /\ last' = [Resp("update_heartbeat", 200, node_id)
                          EXCEPT !.should_stop_heartbeat = TRUE,
                                 !.should_terminate = TRUE]
            /\ UNCHANGED need_rescheduling
            /\ IF node.docker_container_id # NoHandle
               THEN /\ sandbox' = remove_container(
                                    stop_container(sandbox, node.docker_container_id, drv_ok),
                                    node.docker_container_id, drv_ok)
                    /\ nodes' = [nodes EXCEPT ![node_id] = TeardownRow(@)]
               ELSE UNCHANGED <<nodes, sandbox>>
       ELSE LET row == HeartbeatRow(node, payload) IN
            /\ nodes' = [nodes EXCEPT ![node_id] = row]
            /\ IF row.health_status = "permanently_failed"
               THEN /\ need_rescheduling' = TRUE
                    /\ sandbox' = IF node.docker_container_id # NoHandle
                                  THEN stop_container(sandbox, node.docker_container_id, drv_ok)
                                  ELSE sandbox
               ELSE UNCHANGED <<sandbox, need_rescheduling>>
            /\ last' = [Resp("update_heartbeat", 200, node_id)
                          EXCEPT !.should_stop_heartbeat =
                                    (row.health_status = "permanently_failed")]

(* ------------------------ DELETE /nodes/{id} --------------------------- *)
(* Deleting the node row cascades to the pods that reference it            *)
(* (Node.pods, cascade="all, delete-orphan").                              *)
CascadePods_none(ps, node_id) == ps

CascadePods(ps, node_id) ==
  [p \in {q \in DOMAIN ps : ps[q].node_id # node_id} |-> ps[p]]

delete_node(node_id, drv_ok) ==
  /\ UNCHANGED <<next_node_id, next_pod_id, need_rescheduling, uptime, rs, rc, mon>>
  /\ IF node_id \notin DOMAIN nodes
     THEN \* get_or_404 raises inside the try block: answered 500
          /\ last' = Resp("delete_node", 500, node_id)
          /\ UNCHANGED <<nodes, pods, sandbox>>
     ELSE LET node == nodes[node_id] IN
       IF node.health_status # "permanently_failed" /\ Len(node.pod_ids) > 0
       THEN /\ last' = Resp("delete_node", 400, node_id)
            /\ UNCHANGED <<nodes, pods, sandbox>>
       ELSE /\ sandbox' = IF node.docker_container_id # NoHandle
                          THEN remove_container(
                                 stop_container(sandbox, node.docker_container_id, drv_ok),
                                 node.docker_container_id, drv_ok)
                          ELSE sandbox
            /\ nodes' = RemoveKey(nodes, node_id)
            /\ pods' = CascadePods(pods, node_id)
            /\ last' = [Resp("delete_node", 200, node_id) EXCEPT
                          !.arg = Cardinality(DOMAIN pods \ DOMAIN pods')]

(* ------------------ POST /nodes/{id}/simulate/failure ------------------ *)
simulate_node_failure(node_id) ==
  /\ UNCHANGED <<pods, next_node_id, next_pod_id, sandbox, need_rescheduling, uptime, rs, rc, mon>>
  /\ IF node_id \notin DOMAIN nodes
     THEN /\ last' = Resp("simulate_node_failure", 500, node_id)
          /\ UNCHANGED nodes
     ELSE /\ nodes' = [nodes EXCEPT ![node_id].health_status = "failed"]
          /\ last' = Resp("simulate_node_failure", 200, node_id)

(* --------------------- POST /nodes/{id}/deregister --------------------- *)
deregister_node(node_id) ==
  /\ UNCHANGED <<pods, next_node_id, next_pod_id, sandbox, uptime, rs, rc, mon>>
  /\ IF node_id \notin DOMAIN nodes
     THEN /\ last' = Resp("deregister_node", 404, node_id)
          /\ UNCHANGED <<nodes, need_rescheduling>>
     ELSE /\ need_rescheduling' =
               IF Len(nodes[node_id].pod_ids) > 0 THEN TRUE ELSE need_rescheduling
          /\ nodes' = [nodes EXCEPT ![node_id].health_status = "permanently_failed"]
          /\ last' = Resp("deregister_node", 200, node_id)

(* -------------------- POST /nodes/{id}/force_cleanup ------------------- *)
force_cleanup_node(node_id, drv_ok) ==
  /\ UNCHANGED <<pods, next_node_id, next_pod_id, need_rescheduling, uptime, rs, rc, mon>>
  /\ IF node_id \notin DOMAIN nodes
     THEN /\ last' = Resp("force_cleanup_node", 500, node_id)
          /\ UNCHANGED <<nodes, sandbox>>
     ELSE LET node == nodes[node_id] IN
       IF node.health_status # "permanently_failed"
       THEN /\ last' = Resp("force_cleanup_node", 400, node_id)
            /\ UNCHANGED <<nodes, sandbox>>
       ELSE /\ last' = Resp("force_cleanup_node", 200, node_id)
            /\ IF node.docker_container_id # NoHandle
               THEN /\ sandbox' = remove_container(
                                    stop_container(sandbox, node.docker_container_id, drv_ok),
                                    node.docker_container_id, drv_ok)
                    /\ nodes' = [nodes EXCEPT ![node_id].docker_container_id = NoHandle]
               ELSE UNCHANGED <<nodes, sandbox>>

(* ------------------------------ scheduler ------------------------------ *)
Eligible_nocpu(ns, n, cpu_cores_req) ==
  /\ ns[n].health_status = "healthy"
  /\ ns[n].node_type = "worker"
  /\ ns[n].kubelet_status = "running"
  /\ ns[n].container_runtime_status = "running"

(* The eligibility filter shared by add_pod and reschedule_pods.           *)
Eligible(ns, n, cpu_cores_req) ==
  /\ ns[n].cpu_cores_avail >= cpu_cores_req
  /\ ns[n].health_status = "healthy"
  /\ ns[n].node_type = "worker"
  /\ ns[n].kubelet_status = "running"
  /\ ns[n].container_runtime_status = "running"

eligible_nodes(ns, cpu_cores_req) ==
  {n \in DOMAIN ns : Eligible(ns, n, cpu_cores_req)}

BestFit_first(ns, E) == SetMin(E)

(* min(eligible_nodes, key=lambda n: n.cpu_cores_avail): the first row, in *)
(* query order, among those with the least cpu_cores_avail.                *)
BestFit(ns, E) ==
  CHOOSE n \in E : \A m \in E :
     \/ ns[n].cpu_cores_avail < ns[m].cpu_cores_avail
     \/ ns[n].cpu_cores_avail = ns[m].cpu_cores_avail /\ n <= m

(* ----------------------------- POST /pods ------------------------------ *)
(* name = "" stands for a missing name, n_containers = 0 for an empty      *)
(* containers list; docker_ok is the outcome of the provisioning block     *)
(* (network, volumes, container create and start).                        *)
add_pod(name, cpu_cores_req, n_containers, docker_ok) ==
  /\ next_pod_id <= MaxPods
  /\ UNCHANGED <<next_node_id, sandbox, need_rescheduling, uptime, rs, rc, mon>>
  /\ IF name = "" \/ cpu_cores_req = 0 \/ n_containers = 0
     THEN /\ last' = [Resp("add_pod", 400, 0) EXCEPT !.arg = cpu_cores_req]
          /\ UNCHANGED <<nodes, pods, next_pod_id>>
     ELSE LET E == eligible_nodes(nodes, cpu_cores_req) IN
       IF E = {}
       THEN /\ last' = [Resp("add_pod", 400, 0) EXCEPT !.arg = cpu_cores_req]
            /\ UNCHANGED <<nodes, pods, next_pod_id>>
       ELSE IF \E p \in DOMAIN pods : pods[p].name = name
       THEN \* the unique constraint fails the flush: rollback
            /\ last' = [Resp("add_pod", 500, 0) EXCEPT !.arg = cpu_cores_req]
            /\ UNCHANGED <<nodes, pods, next_pod_id>>
       ELSE LET node == BestFit(nodes, E)
                id == next_pod_id
                new_pod == [name |-> name, cpu_cores_req |-> cpu_cores_req,
                            node_id |-> node, health_status |-> "running"]
            IN
            /\ next_pod_id' = id + 1
            /\ IF docker_ok
               THEN /\ pods' = pods @@ (id :> new_pod)
                    /\ nodes' = [nodes EXCEPT
                                   ![node].cpu_cores_avail = @ - cpu_cores_req,
                                   ![node].pod_ids = add_pod_id(@, id)]
                    /\ last' = [Resp("add_pod", 200, id) EXCEPT !.arg = cpu_cores_req]
               ELSE \* the handler marks the pod failed and commits
                    /\ pods' = pods @@ (id :> [new_pod EXCEPT !.health_status = "failed"])
                    /\ nodes' = [nodes EXCEPT
                                   ![node].cpu_cores_avail = @ - cpu_cores_req]
                    /\ last' = [Resp("add_pod", 500, id) EXCEPT !.arg = cpu_cores_req]

(* -------------------------- DELETE /pods/{id} -------------------------- *)
delete_pod(pod_id) ==
  /\ UNCHANGED <<next_node_id, next_pod_id, sandbox, need_rescheduling, uptime, rs, rc, mon>>
  /\ IF pod_id \notin DOMAIN pods
     THEN /\ last' = Resp("delete_pod", 500, pod_id)
          /\ UNCHANGED <<nodes, pods>>
     ELSE LET pod == pods[pod_id] IN
       IF pod.node_id \notin DOMAIN nodes
       THEN /\ last' = Resp("delete_pod", 404, pod_id)
            /\ UNCHANGED <<nodes, pods>>
       ELSE /\ nodes' = [nodes EXCEPT
                           ![pod.node_id].cpu_cores_avail = @ + pod.cpu_cores_req,
                           ![pod.node_id].pod_ids = remove_pod_id(@, pod_id)]
            /\ pods' = RemoveKey(pods, pod_id)
            /\ last' = Resp("delete_pod", 200, pod_id)

(* ------------------- monitor_containers (sandbox sweep) ---------------- *)
MonitorContainersRow(node, container_status) ==
  IF /\ node.docker_container_id # NoHandle
     /\ node.health_status = "healthy"
     /\ container_status # "running"
  THEN [node EXCEPT !.health_status = "failed",
                    !.recovery_attempts = @ + 1]
  ELSE node

monitor_containers ==
  /\ nodes' = [n \in DOMAIN nodes |->
                 MonitorContainersRow(nodes[n],
                                      get_container_info(nodes[n].docker_container_id))]
  /\ need_rescheduling' = (need_rescheduling \/ nodes' # nodes)
  /\ last' = Tick_("monitor_containers")
  /\ UNCHANGED <<pods, next_node_id, next_pod_id, sandbox, uptime, rs, rc, mon>>

(* ------------------ monitor_node_health (heartbeat sweep) -------------- *)
HealthSweepRow_at_limit(node) ==
  IF node.health_status = "permanently_failed" /\ Len(node.pod_ids) > 0
  THEN node
  ELSE IF node.hb_age >= max_heartbeat_interval /\ node.health_status = "healthy"
  THEN LET attempts == node.recovery_attempts + 1 IN
       [node EXCEPT !.recovery_attempts = attempts,
                    !.health_status = IF attempts >= max_recovery_attempts
                                      THEN "permanently_failed" ELSE "failed"]
  ELSE node

HealthSweepRow(node) ==
  IF node.health_status = "permanently_failed" /\ Len(node.pod_ids) > 0
  THEN node
  ELSE IF node.hb_age > max_heartbeat_interval /\ node.health_status = "healthy"
  THEN LET attempts == node.recovery_attempts + 1 IN
       [node EXCEPT !.recovery_attempts = attempts,
                    !.health_status = IF attempts >= max_recovery_attempts
                                      THEN "permanently_failed" ELSE "failed"]
  ELSE node

monitor_node_health(drv_ok) ==
  /\ last' = Tick_("monitor_node_health")
  /\ UNCHANGED <<pods, next_node_id, next_pod_id, uptime, rs, rc, mon>>
  /\ IF uptime < STARTUP_GRACE_PERIOD
     THEN UNCHANGED <<nodes, sandbox, need_rescheduling>>
     ELSE /\ nodes' = [n \in DOMAIN nodes |-> HealthSweepRow(nodes[n])]
          /\ need_rescheduling' =
               \/ need_rescheduling
               \/ nodes' # nodes
               \/ \E n \in DOMAIN nodes :
                     /\ nodes[n].health_status = "permanently_failed"
                     /\ Len(nodes[n].pod_ids) > 0
          /\ sandbox' = [c \in DOMAIN sandbox |->
                IF /\ c \in DOMAIN nodes
                   /\ nodes[c].docker_container_id = c
                   /\ nodes[c].health_status # "permanently_failed"
                   /\ nodes'[c].health_status = "permanently_failed"
                THEN stop_container(sandbox, c, drv_ok)[c]
                ELSE sandbox[c]]

(* --------------- send_heartbeats (routes/nodes.py sweep) --------------- *)
SendHeartbeatsRow_recovering(node) ==
  IF node.health_status \in {"healthy", "recovering"}
     /\ node.hb_age > max_heartbeat_interval
  THEN [node EXCEPT !.health_status = "failed"]
  ELSE node

SendHeartbeatsRow(node) ==
  IF node.health_status = "healthy" /\ node.hb_age > max_heartbeat_interval
  THEN [node EXCEPT !.health_status = "failed"]
  ELSE node

send_heartbeats ==
  /\ nodes' = [n \in DOMAIN nodes |-> SendHeartbeatsRow(nodes[n])]
  /\ last' = Tick_("send_heartbeats")
  /\ UNCHANGED <<pods, next_node_id, next_pod_id, sandbox, need_rescheduling, uptime, rs, rc, mon>>

(* ------------------ attempt_node_recovery (reconciler) ----------------- *)
(* One tick for one node row.  container_status and exists are what the    *)
(* driver reports for the node's sandbox, start_ok the outcome of          *)
(* start_container.  A branch that does not commit leaves the row as it    *)
(* was: the next iteration starts with a rollback.                         *)
RecoveryRow(node, container_status, exists, start_ok) ==
  IF node.health_status # "failed" THEN node
  ELSE IF node.recovery_attempts >= max_recovery_attempts
  THEN [node EXCEPT !.health_status = "permanently_failed"]
  ELSE IF node.docker_container_id = NoHandle THEN node
  ELSE LET attempts == node.recovery_attempts + 1
           bumped == [node EXCEPT !.recovery_attempts = attempts]
       IN IF container_status = "running"
          THEN [bumped EXCEPT !.health_status = "recovering"]
          ELSE IF ~exists
          THEN IF attempts >= max_recovery_attempts
               THEN [bumped EXCEPT !.health_status = "permanently_failed"]
               ELSE bumped
          ELSE IF start_ok
          THEN [bumped EXCEPT !.health_status = "recovering", !.hb_age = 0]
          ELSE IF attempts >= max_recovery_attempts
               THEN [bumped EXCEPT !.health_status = "permanently_failed"]
               ELSE node

attempt_node_recovery(start_ok, drv_ok) ==
  /\ nodes' = [n \in DOMAIN nodes |->
                 RecoveryRow(nodes[n],
                             get_container_info(nodes[n].docker_container_id),
                             container_exists(nodes[n].docker_container_id),
                             start_ok[n])]
  /\ need_rescheduling' =
       \/ need_rescheduling
       \/ \E n \in DOMAIN nodes :
             /\ nodes[n].health_status # "permanently_failed"
             /\ nodes'[n].health_status = "permanently_failed"
  /\ sandbox' = [c \in DOMAIN sandbox |->
        IF c \in DOMAIN nodes /\ nodes[c].docker_container_id = c
        THEN IF /\ nodes[c].health_status # "permanently_failed"
                /\ nodes'[c].health_status = "permanently_failed"
             THEN stop_container(sandbox, c, drv_ok)[c]
             ELSE IF /\ nodes'[c].health_status = "recovering"
                     /\ nodes[c].health_status = "failed"
                     /\ sandbox[c] # "running"
             THEN "running"
             ELSE sandbox[c]
        ELSE sandbox[c]]
  /\ last' = [Tick_("attempt_node_recovery") EXCEPT
                !.arg = Cardinality({n \in DOMAIN nodes : start_ok[n]})]
  /\ UNCHANGED <<pods, next_node_id, next_pod_id, uptime, rs, rc, mon>>

(* ------------- attempt_node_recovery, one branch step by step ---------- *)
(* The branch on one failed node between its commit points: the row is     *)
(* refreshed (rollback, begin, Node.query.get), the runtime is asked for   *)
(* the sandbox, the sandbox is restarted, the session commits.  Other      *)
(* transactions may commit between these steps.                            *)
HeartbeatSeen ==
  \/ rc.delivered
  \/ last.op = "update_heartbeat" /\ last.id = rc.node /\ last.code = 200

recovery_refresh(node_id, inflight) ==
  /\ rc.pc = "idle"
  /\ node_id \in DOMAIN nodes
  /\ nodes[node_id].health_status = "failed"
  /\ nodes[node_id].recovery_attempts < max_recovery_attempts
  /\ nodes[node_id].docker_container_id # NoHandle
  /\ rc' = [RecoveryIdle EXCEPT !.pc = "query", !.node = node_id,
                                !.row = nodes[node_id], !.inflight = inflight]
  /\ last' = Resp("recovery_refresh", 0, node_id)
  /\ UNCHANGED <<nodes, pods, next_node_id, next_pod_id, sandbox, need_rescheduling,
                 uptime, rs, mon>>

recovery_query ==
  /\ rc.pc = "query"
  /\ LET status == get_container_info(rc.row.docker_container_id)
         exists == container_exists(rc.row.docker_container_id)
     IN rc' = [rc EXCEPT !.status = status, !.exists = exists,
                         !.delivered = HeartbeatSeen,
                         !.pc = IF status # "running" /\ exists
                                THEN "restart" ELSE "write"]
  /\ last' = Resp("recovery_query", 0, rc.node)
  /\ UNCHANGED <<nodes, pods, next_node_id, next_pod_id, sandbox, need_rescheduling,
                 uptime, rs, mon>>

recovery_restart(start_ok) ==
  /\ rc.pc = "restart"
  /\ LET c == rc.row.docker_container_id
         started == start_ok /\ container_exists(c)
     IN /\ sandbox' = IF started THEN [sandbox EXCEPT ![c] = "running"] ELSE sandbox
        /\ rc' = [rc EXCEPT !.start_ok = started, !.delivered = HeartbeatSeen,
                            !.pc = "write"]
  /\ last' = Resp("recovery_restart", 0, rc.node)
  /\ UNCHANGED <<nodes, pods, next_node_id, next_pod_id, need_rescheduling, uptime, rs, mon>>

(* The UPDATE of a commit: the columns the session changed since it loaded *)
(* the row are written, the others are left as the store has them.         *)
FlushRow(stored, loaded, changed) ==
  [c \in DOMAIN stored |-> IF changed[c] # loaded[c] THEN changed[c] ELSE stored[c]]

(* store_rejects: the store refuses the write of a row that another        *)
(* transaction changed since the refresh (serialization failure); the      *)
(* branch then rolls back.                                                 *)
recovery_write(drv_ok, store_rejects) ==
  /\ rc.pc = "write"
  /\ LET n == rc.node
         row == RecoveryRow(rc.row, rc.status, rc.exists, rc.start_ok)
         failing == row.health_status = "permanently_failed"
         rejected == store_rejects /\ nodes[n] # rc.row
     IN
     /\ nodes' = IF rejected THEN nodes
                 ELSE [nodes EXCEPT ![n] = FlushRow(@, rc.row, row)]
     /\ need_rescheduling' = (need_rescheduling \/ failing)
     /\ sandbox' = IF failing
                   THEN stop_container(sandbox, rc.row.docker_container_id, drv_ok)
                   ELSE sandbox
  /\ rc' = RecoveryIdle
  /\ last' = [Resp("recovery_write", 0, rc.node) EXCEPT
                !.arg = IF HeartbeatSeen THEN 1 ELSE 0]
  /\ UNCHANGED <<pods, next_node_id, next_pod_id, uptime, rs, mon>>

(* ------------------- reap_stale_containers (reaper) -------------------- *)
ReapRow_keep(node) == node

ReapRow(node) ==
  IF node.health_status = "permanently_failed" /\ node.docker_container_id # NoHandle
  THEN [node EXCEPT !.docker_container_id = NoHandle]
  ELSE node

reap_stale_containers(drv_ok) ==
  /\ nodes' = [n \in DOMAIN nodes |-> ReapRow(nodes[n])]
  /\ sandbox' = [c \in DOMAIN sandbox |->
        IF /\ c \in DOMAIN nodes
           /\ nodes[c].docker_container_id = c
           /\ nodes[c].health_status = "permanently_failed"
        THEN remove_container(stop_container(sandbox, c, drv_ok), c, drv_ok)[c]
        ELSE sandbox[c]]
  /\ last' = Tick_("reap_stale_containers")
  /\ UNCHANGED <<pods, next_node_id, next_pod_id, need_rescheduling, uptime, rs, rc, mon>>

(* ------------------------------ environment ---------------------------- *)
(* Time passes: every row's heartbeat age grows; an age beyond             *)
(* max_heartbeat_interval is kept as max_heartbeat_interval + 1.           *)
Tick(dt) ==
  /\ \/ uptime < STARTUP_GRACE_PERIOD
     \/ \E n \in DOMAIN nodes : nodes[n].hb_age <= max_heartbeat_interval
  /\ uptime' = Min(uptime + dt, STARTUP_GRACE_PERIOD)
  /\ nodes' = [n \in DOMAIN nodes |->
                 [nodes[n] EXCEPT !.hb_age = Min(@ + dt, max_heartbeat_interval + 1)]]
  /\ last' = Tick_("Tick")
  /\ UNCHANGED <<pods, next_node_id, next_pod_id, sandbox, need_rescheduling, rs, rc, mon>>

(* A node sandbox stops, is started again (restart policy) or is removed   *)
(* outside the control plane.                                              *)
sandbox_change(c, status) ==
  /\ c \in DOMAIN sandbox
  /\ sandbox[c] # "absent"
  /\ sandbox[c] # status
  /\ sandbox' = [sandbox EXCEPT ![c] = status]
  /\ last' = Tick_("sandbox_change")
  /\ UNCHANGED <<nodes, pods, next_node_id, next_pod_id, need_rescheduling, uptime, rs, rc, mon>>

(* --------------------- reschedule_pods (rescheduler) ------------------- *)
pods_on_first(ps, node_id) ==
  LET S == {p \in DOMAIN ps : ps[p].node_id = node_id}
  IN IF S = {} THEN <<>> ELSE <<SetMin(S)>>

pods_on(ps, node_id) == Sorted({p \in DOMAIN ps : ps[p].node_id = node_id})

(* Move on to the next failed node that has pods; when none is left the    *)
(* tick goes on to the sandbox cleanup.                                    *)
RECURSIVE NextFailedNode(_, _, _)
NextFailedNode(r, todo, ps) ==
  IF todo = <<>>
  THEN [r EXCEPT !.pc = "cleanup", !.todo = <<>>, !.node = 0, !.queue = <<>>]
  ELSE LET q == pods_on(ps, Head(todo)) IN
       IF q = <<>> THEN NextFailedNode(r, Tail(todo), ps)
       ELSE [r EXCEPT !.pc = "pods", !.todo = Tail(todo), !.node = Head(todo), !.queue = q]

AfterPod(r, ps) ==
  IF Tail(r.queue) # <<>> THEN [r EXCEPT !.queue = Tail(r.queue)]
  ELSE NextFailedNode(r, r.todo, ps)

reschedule_begin ==
  /\ rs.pc = "idle"
  /\ UNCHANGED <<rc, mon>>
  /\ need_rescheduling
  /\ last' = Tick_("reschedule_begin")
  /\ UNCHANGED <<nodes, pods, next_node_id, next_pod_id, sandbox, uptime>>
  /\ LET failed == {n \in DOMAIN nodes : nodes[n].health_status = "permanently_failed"} IN
     IF failed = {}
     THEN /\ need_rescheduling' = FALSE
          /\ UNCHANGED rs
     ELSE /\ rs' = NextFailedNode(
                     [Idle EXCEPT !.failed_nodes = Sorted(failed),
                                  !.bound = {<<p, pods[p].node_id>> :
                                               p \in {q \in DOMAIN pods : pods[q].node_id \in failed}}],
                     Sorted(failed), pods)
          /\ UNCHANGED need_rescheduling

(* What an eviction does to the pods: session.delete(pod) and commit; the  *)
(* containers, volumes and config items go with the pod row.               *)
Evict_keep(ps, pod_id) == ps

Evict(ps, pod_id) == RemoveKey(ps, pod_id)

(* What a relocation writes to the node rows: the pod id leaves the failed *)
(* node's list and joins the target's, the target is debited.              *)
Relocate_nodebit(ns, failed_node, target_node, pod_id, cpu_cores_req) ==
  [ns EXCEPT ![failed_node].pod_ids = remove_pod_id(@, pod_id),
             ![target_node].pod_ids = add_pod_id(@, pod_id)]

Relocate(ns, failed_node, target_node, pod_id, cpu_cores_req) ==
  [ns EXCEPT ![failed_node].pod_ids = remove_pod_id(@, pod_id),
             ![target_node].pod_ids = add_pod_id(@, pod_id),
             ![target_node].cpu_cores_avail = @ - cpu_cores_req]

(* One iteration of the pod loop.  run_ok is the outcome of POST /run_pod  *)
(* on the target node.                                                     *)
reschedule_pod(run_ok) ==
  /\ rs.pc = "pods"
  /\ UNCHANGED <<rc, mon>>
  /\ UNCHANGED <<next_node_id, next_pod_id, sandbox, need_rescheduling, uptime>>
  /\ LET pod_id == Head(rs.queue)
         failed_node == rs.node
     IN
     /\ IF pod_id \notin DOMAIN pods
        THEN /\ UNCHANGED <<nodes, pods>>
             /\ rs' = AfterPod(rs, pods)
        ELSE LET pod == pods[pod_id]
                 E == eligible_nodes(nodes, pod.cpu_cores_req)
             IN
             IF E = {}
             THEN \* eviction
                  /\ nodes' = [nodes EXCEPT ![failed_node].pod_ids = remove_pod_id(@, pod_id)]
                  /\ pods' = Evict(pods, pod_id)
                  /\ rs' = AfterPod(rs, pods')
             ELSE IF ~run_ok
             THEN /\ UNCHANGED <<nodes, pods>>
                  /\ rs' = AfterPod([rs EXCEPT !.aborted = @ \cup {pod_id}], pods)
             ELSE LET target_node == BestFit(nodes, E) IN
                  /\ nodes' = Relocate(nodes, failed_node, target_node, pod_id,
                                        pod.cpu_cores_req)
                  /\ pods' = [pods EXCEPT ![pod_id].node_id = target_node,
                                          ![pod_id].health_status = "running"]
                  /\ rs' = AfterPod(rs, pods')
     /\ last' = [Resp("reschedule_pod", 0, pod_id) EXCEPT
                   !.arg = Cardinality(DOMAIN pods \ DOMAIN pods')]

(* The end of the tick: tear down the sandboxes of the failed nodes the    *)
(* tick listed, then clear the flag.  A listed node whose row was deleted  *)
(* during the tick either is skipped or (stale_raises) ends the tick with  *)
(* an exception, which leaves the flag and the later nodes alone.          *)
RECURSIVE CleanupUpTo(_, _)
CleanupUpTo(failed, stale_raises) ==
  IF failed = <<>> THEN {}
  ELSE IF Head(failed) \notin DOMAIN nodes
  THEN IF stale_raises THEN {} ELSE CleanupUpTo(Tail(failed), stale_raises)
  ELSE {Head(failed)} \cup CleanupUpTo(Tail(failed), stale_raises)

reschedule_cleanup(drv_ok, stale_raises) ==
  /\ rs.pc = "cleanup"
  /\ UNCHANGED <<rc, mon>>
  /\ LET cleaned == {n \in CleanupUpTo(rs.failed_nodes, stale_raises) :
                        nodes[n].docker_container_id # NoHandle}
         raised == stale_raises /\ \E n \in Range(rs.failed_nodes) : n \notin DOMAIN nodes
     IN
     /\ nodes' = [n \in DOMAIN nodes |->
                    IF n \in cleaned THEN [nodes[n] EXCEPT !.docker_container_id = NoHandle]
                    ELSE nodes[n]]
     /\ sandbox' = [c \in DOMAIN sandbox |->
                      IF c \in cleaned /\ nodes[c].docker_container_id = c
                      THEN remove_container(stop_container(sandbox, c, drv_ok), c, drv_ok)[c]
                      ELSE sandbox[c]]
     /\ need_rescheduling' = IF raised THEN need_rescheduling ELSE FALSE
  /\ rs' = Idle
  /\ last' = Tick_("reschedule_cleanup")
  /\ UNCHANGED <<pods, next_node_id, next_pod_id, uptime>>

(* ------------------------------- inputs -------------------------------- *)
NodeIds == 1..MaxNodes
PodIds == 1..MaxPods

(* Names are taken in the order of creation *)
NodeName(id) == IF id = 1 THEN "node-a" ELSE IF id = 2 THEN "node-b" ELSE "node-c"
PodName(id) == IF id = 1 THEN "pod-a" ELSE IF id = 2 THEN "pod-b" ELSE "pod-c"

(* Heartbeat payloads: records holding only the keys the sandbox sent *)
EmptyPayload == [k \in {} |-> k]
Field(key, values) == {key :> v : v \in values}
Components(k, c) == ("kubelet" :> k) @@ ("container_runtime" :> c)

SchedPayloads ==
  {EmptyPayload, "health_status" :> "failed",
   Components("running", "running"), Components("stopped", "running"),
   Components("running", "stopped")}

(* ---------------- scheduling, accounting and rescheduling -------------- *)
Next ==
  \/ \E cpu \in 1..MaxCpu, t \in {"worker", "master"} :
        create_node(NodeName(next_node_id), cpu, t, TRUE)
  \/ \E n \in NodeIds, payload \in SchedPayloads : update_heartbeat(n, payload, TRUE)
  \/ \E n \in NodeIds : deregister_node(n)
  \/ \E n \in NodeIds : delete_node(n, TRUE)
  \/ \E r \in 1..MaxCpu, ok \in BOOLEAN : add_pod(PodName(next_pod_id), r, 1, ok)
  \/ \E p \in PodIds : delete_pod(p)
  \/ reschedule_begin
  \/ \E ok \in BOOLEAN : reschedule_pod(ok)
  \/ \E stale \in BOOLEAN : reschedule_cleanup(TRUE, stale)

Spec == Init /\ [][Next]_vars

(* ------------------- node lifecycle, recovery and reaping -------------- *)
MaxRecoveryNodes == 1
MaxAttempts == 5

ClockSteps == {60, 61}

FullReport ==
  Components("stopped", "stopped") @@ ("cpu_cores_avail" :> 0) @@ ("pod_ids" :> <<1>>)

RecoveryPayloads ==
  {h @@ x : h \in {EmptyPayload} \cup Field("health_status",
                     {"healthy", "failed", "recovering", "permanently_failed"}),
            x \in {EmptyPayload, FullReport}}

AttemptsBelowBound ==
  \A n \in DOMAIN nodes : nodes[n].recovery_attempts < MaxAttempts

NextRecovery ==
  \/ /\ next_node_id <= MaxRecoveryNodes
     /\ create_node(NodeName(next_node_id), 1, "worker", TRUE)
  \/ \E n \in 1..MaxRecoveryNodes, payload \in RecoveryPayloads, ok \in BOOLEAN :
        update_heartbeat(n, payload, ok)
  \/ \E n \in 1..MaxRecoveryNodes : simulate_node_failure(n)
  \/ \E n \in 1..MaxRecoveryNodes : deregister_node(n)
  \/ \E n \in 1..MaxRecoveryNodes, ok \in BOOLEAN : force_cleanup_node(n, ok)
  \/ AttemptsBelowBound /\ monitor_containers
  \/ \E ok \in BOOLEAN : AttemptsBelowBound /\ monitor_node_health(ok)
  \/ send_heartbeats
  \/ \E start_ok \in [NodeIds -> BOOLEAN], ok \in BOOLEAN :
        AttemptsBelowBound /\ attempt_node_recovery(start_ok, ok)
  \/ \E ok \in BOOLEAN : reap_stale_containers(ok)
  \/ \E dt \in ClockSteps : Tick(dt)
  \/ \E c \in 1..MaxRecoveryNodes, status \in {"running", "exited", "absent"} :
        sandbox_change(c, status)

SpecRecovery == Init /\ [][NextRecovery]_vars

(* ------------------ migration off permanently failed nodes ------------- *)
(* What node_simulator.py puts in every heartbeat: its own view of the     *)
(* node, which the control plane never updates (cpu as at start, no pods). *)
SimulatorReport(cpu) ==
  Components("running", "running") @@ ("health_status" :> "healthy")
    @@ ("cpu_cores_avail" :> cpu) @@ ("pod_ids" :> <<>>)

SelfReportedFailure == "health_status" :> "permanently_failed"

(* The target's /run_pod always answers 200 and the sandbox runtime never  *)
(* fails here: the environment most favourable to a migration.            *)
NextMigration ==
  \/ create_node(NodeName(next_node_id), MaxCpu, "worker", TRUE)
  \/ \E n \in DOMAIN nodes :
        update_heartbeat(n, SimulatorReport(nodes[n].cpu_cores_total), TRUE)
  \/ \E n \in NodeIds : update_heartbeat(n, SelfReportedFailure, TRUE)
  \/ \E n \in NodeIds : deregister_node(n)
  \/ add_pod(PodName(next_pod_id), 1, 1, TRUE)
  \/ monitor_node_health(TRUE)
  \/ Tick(max_heartbeat_interval + 1)
  \/ reschedule_begin
  \/ reschedule_pod(TRUE)
  \/ reschedule_cleanup(TRUE, FALSE)

(* Every background loop keeps running (DockerMonitor.start), and time     *)
(* keeps passing.                                                          *)
SpecMigration ==
  /\ Init
  /\ [][NextMigration]_vars
  /\ WF_vars(monitor_node_health(TRUE))
  /\ WF_vars(Tick(max_heartbeat_interval + 1))
  /\ WF_vars(reschedule_begin)
  /\ WF_vars(reschedule_pod(TRUE))
  /\ WF_vars(reschedule_cleanup(TRUE, FALSE))

(* -------------- heartbeat ingest during a reconciler branch ------------ *)
InterleavePayloads ==
  {SimulatorReport(1), EmptyPayload, Components("stopped", "running")}

(* One node; while the reconciler is inside its branch on the node, the    *)
(* node's sandbox sends one heartbeat.                                     *)
NextInterleave ==
  \/ /\ next_node_id <= MaxRecoveryNodes
     /\ create_node(NodeName(next_node_id), 1, "worker", TRUE)
  \/ \E n \in 1..MaxRecoveryNodes : simulate_node_failure(n)
  \/ AttemptsBelowBound /\ monitor_containers
  \/ \E c \in 1..MaxRecoveryNodes, status \in {"running", "exited", "absent"} :
        rc.pc = "idle" /\ sandbox_change(c, status)
  \/ \E n \in 1..MaxRecoveryNodes, payload \in InterleavePayloads :
        recovery_refresh(n, payload)
  \/ /\ rc.pc # "idle"
     /\ ~HeartbeatSeen
     /\ update_heartbeat(rc.node, rc.inflight, TRUE)
  \/ /\ rc.pc = "idle"
     /\ \E n \in 1..MaxRecoveryNodes : update_heartbeat(n, EmptyPayload, TRUE)
  \/ recovery_query
  \/ \E ok \in BOOLEAN : recovery_restart(ok)
  \/ \E ok \in BOOLEAN, rejects \in BOOLEAN : recovery_write(ok, rejects)

SpecInterleave == Init /\ [][NextInterleave]_vars

(* ------------------------ requests that choose names ------------------ *)
Names == {"a", "b"}

(* Clients name nodes and pods as they like, so a request can reuse a name *)
(* that is in the store.                                                   *)
NextNames ==
  \/ \E name \in Names, cpu \in 1..MaxCpu : create_node(name, cpu, "worker", TRUE)
  \/ \E name \in Names, cpu \in 1..MaxCpu : add_pod(name, cpu, 1, TRUE)
  \/ \E p \in PodIds : delete_pod(p)
  \/ \E n \in NodeIds : delete_node(n, TRUE)

SpecNames == Init /\ [][NextNames]_vars

(* ------------------- CPU accounting with heartbeats -------------------- *)
(* Create-pod, delete-pod and the rescheduler, with the heartbeats the     *)
(* node's sandbox sends: they carry the sandbox's own cpu_cores_avail.     *)
NextAccounting ==
  \/ \E cpu \in 1..MaxCpu : create_node(NodeName(next_node_id), cpu, "worker", TRUE)
  \/ \E n \in DOMAIN nodes :
        update_heartbeat(n, SimulatorReport(nodes[n].cpu_cores_total), TRUE)
  \/ \E n \in NodeIds : update_heartbeat(n, SelfReportedFailure, TRUE)
  \/ \E r \in 1..MaxCpu : add_pod(PodName(next_pod_id), r, 1, TRUE)
  \/ \E p \in PodIds : delete_pod(p)
  \/ reschedule_begin
  \/ reschedule_pod(TRUE)
  \/ reschedule_cleanup(TRUE, FALSE)

SpecAccounting == Init /\ [][NextAccounting]_vars

(* -------------------- deleting nodes that host pods -------------------- *)
(* Pods are created and deleted, the nodes' sandboxes send their           *)
(* heartbeats, and clients delete nodes.                                   *)
NextGuard ==
  \/ \E cpu \in 1..MaxCpu : create_node(NodeName(next_node_id), cpu, "worker", TRUE)
  \/ \E n \in DOMAIN nodes :
        update_heartbeat(n, SimulatorReport(nodes[n].cpu_cores_total), TRUE)
  \/ \E n \in NodeIds : update_heartbeat(n, SelfReportedFailure, TRUE)
  \/ \E r \in 1..MaxCpu : add_pod(PodName(next_pod_id), r, 1, TRUE)
  \/ \E p \in PodIds : delete_pod(p)
  \/ \E n \in NodeIds : delete_node(n, TRUE)

SpecGuard == Init /\ [][NextGuard]_vars

(* ----------------------- requests with invalid bodies ------------------ *)
(* What a client may put in a create request: a name or none, a number of  *)
(* cores that may be zero or negative, a node type that may be unknown, a  *)
(* containers list that may be empty.                                      *)
CpuInputs == -1..MaxCpu

NodeTypeInputs == {"worker", "master", "gpu"}

NextValidation ==
  \/ \E name \in {"", NodeName(next_node_id)}, cpu \in CpuInputs, t \in NodeTypeInputs :
        create_node(name, cpu, t, TRUE)
  \/ \E name \in {"", PodName(next_pod_id)}, r \in CpuInputs, k \in 0..1 :
        add_pod(name, r, k, TRUE)
  \/ \E p \in PodIds : delete_pod(p)

SpecValidation == Init /\ [][NextValidation]_vars

(* ------------------- DockerMonitor.start() and stop() ------------------ *)
MaxLoops == 3

(* start(): when running is False, set it and create the loop threads; the *)
(* rescheduler thread begins at the head of its loop.                      *)
start ==
  /\ Len(mon.loops) < MaxLoops
  /\ mon' = IF mon.running THEN mon
            ELSE [running |-> TRUE, loops |-> Append(mon.loops, "head")]
  /\ last' = Resp("start", 0, 0)
  /\ UNCHANGED <<nodes, pods, next_node_id, next_pod_id, sandbox, need_rescheduling,
                 uptime, rs, rc>>

(* stop(): clear running, then join every thread for at most 5 seconds.    *)
(* The join ends nothing: a loop leaves only at its own next test of       *)
(* running, which may come after the join has timed out (the loops sleep   *)
(* RESCHEDULER_INTERVAL = 62 seconds).                                     *)
stop ==
  /\ mon' = [mon EXCEPT !.running = FALSE]
  /\ last' = Resp("stop", 0, 0)
  /\ UNCHANGED <<nodes, pods, next_node_id, next_pod_id, sandbox, need_rescheduling,
                 uptime, rs, rc>>

trigger_pod_rescheduling ==
  /\ need_rescheduling' = TRUE
  /\ last' = Resp("trigger_pod_rescheduling", 0, 0)
  /\ UNCHANGED <<nodes, pods, next_node_id, next_pod_id, sandbox, uptime, rs, rc, mon>>

(* Thread t of reschedule_pods at `while self.running`: it leaves the loop *)
(* when running is False, sleeps and comes back when the flag is not set,  *)
(* and enters the body of an iteration otherwise.                          *)
loop_test(t) ==
  /\ t \in DOMAIN mon.loops
  /\ mon.loops[t] = "head"
  /\ mon' = [mon EXCEPT !.loops[t] = IF ~mon.running THEN "exited"
                                     ELSE IF ~need_rescheduling THEN "head"
                                     ELSE "iterating"]
  /\ last' = Resp("loop_test", 0, t)
  /\ UNCHANGED <<nodes, pods, next_node_id, next_pod_id, sandbox, need_rescheduling,
                 uptime, rs, rc>>

(* Thread t inside an iteration that finds no permanently failed node: it  *)
(* clears the flag and goes to sleep.                                      *)
loop_no_failed_nodes(t) ==
  /\ t \in DOMAIN mon.loops
  /\ mon.loops[t] = "iterating"
  /\ \A n \in DOMAIN nodes : nodes[n].health_status # "permanently_failed"
  /\ need_rescheduling' = FALSE
  /\ mon' = [mon EXCEPT !.loops[t] = "head"]
  /\ last' = Resp("loop_no_failed_nodes", 0, t)
  /\ UNCHANGED <<nodes, pods, next_node_id, next_pod_id, sandbox, uptime, rs, rc>>

NextMonitor ==
  \/ start
  \/ stop
  \/ trigger_pod_rescheduling
  \/ \E t \in 1..MaxLoops : loop_test(t)
  \/ \E t \in 1..MaxLoops : loop_no_failed_nodes(t)

SpecMonitor == Init /\ [][NextMonitor]_vars

(* ---------------------- relocations that are aborted ------------------- *)
(* As the migration above, with a target whose /run_pod may fail.          *)
reschedule_pod_any == \E run_ok \in BOOLEAN : reschedule_pod(run_ok)

NextRetry ==
  \/ create_node(NodeName(next_node_id), MaxCpu, "worker", TRUE)
  \/ \E n \in DOMAIN nodes :
        update_heartbeat(n, SimulatorReport(nodes[n].cpu_cores_total), TRUE)
  \/ \E n \in NodeIds : update_heartbeat(n, SelfReportedFailure, TRUE)
  \/ add_pod(PodName(next_pod_id), 1, 1, TRUE)
  \/ monitor_node_health(TRUE)
  \/ Tick(max_heartbeat_interval + 1)
  \/ reschedule_begin
  \/ reschedule_pod_any
  \/ reschedule_cleanup(TRUE, FALSE)

SpecRetry ==
  /\ Init
  /\ [][NextRetry]_vars
  /\ WF_vars(monitor_node_health(TRUE))
  /\ WF_vars(Tick(max_heartbeat_interval + 1))
  /\ WF_vars(reschedule_begin)
  /\ WF_vars(reschedule_pod_any)
  /\ WF_vars(reschedule_cleanup(TRUE, FALSE))

(* ------------------- escalation of a failed node ----------------------- *)
(* The reconciler keeps running; a failed node sends no heartbeat.  The    *)
(* outcome of start_container is free at every attempt.                    *)
reconcile ==
  \E start_ok \in [NodeIds -> BOOLEAN], drv_ok \in BOOLEAN :
     attempt_node_recovery(start_ok, drv_ok)

NextEscalation ==
  \/ create_node(NodeName(next_node_id), 1, "worker", TRUE)
  \/ \E n \in DOMAIN nodes :
        /\ nodes[n].health_status # "failed"
        /\ update_heartbeat(n, SimulatorReport(nodes[n].cpu_cores_total), TRUE)
  \/ \E n \in DOMAIN nodes : simulate_node_failure(n)
  \/ \E n \in DOMAIN nodes : deregister_node(n)
  \/ \E c \in NodeIds, status \in {"running", "exited", "absent"} :
        sandbox_change(c, status)
  \/ reconcile

SpecEscalation == Init /\ [][NextEscalation]_vars /\ WF_vars(reconcile)

(* --------------- the pod loop of the rescheduler, step by step --------- *)
(* The iteration first queries the eligible nodes and picks the target:    *)
(* the target's row is then in the rescheduler's session.  POST /run_pod   *)
(* follows, and only then the writes and the commit.  No row is locked and *)
(* no version is compared, so the commit writes the attributes it changed, *)
(* computed from the row as the session loaded it.                         *)
reschedule_select_target ==
  /\ rs.pc = "pods"
  /\ Head(rs.queue) \in DOMAIN pods
  /\ LET E == eligible_nodes(nodes, pods[Head(rs.queue)].cpu_cores_req) IN
     /\ E # {}
     /\ LET target_node == BestFit(nodes, E) IN
        rs' = [pc |-> "run_pod", target_node |-> target_node,
               target_row |-> nodes[target_node]] @@ rs
  /\ last' = Resp("reschedule_select_target", 0, Head(rs.queue))
  /\ UNCHANGED <<nodes, pods, next_node_id, next_pod_id, sandbox, need_rescheduling,
                 uptime, rc, mon>>

(* The node rows as the rescheduler's session holds them: the target as it *)
(* was loaded, every other row as stored now.                              *)
SessionView(r) ==
  [nodes EXCEPT ![r.target_node].cpu_cores_avail = r.target_row.cpu_cores_avail,
                ![r.target_node].pod_ids = r.target_row.pod_ids]

reschedule_commit(run_ok) ==
  /\ rs.pc = "run_pod"
  /\ LET pod_id == Head(rs.queue)
         r == [f \in DOMAIN Idle |-> IF f = "pc" THEN "pods" ELSE rs[f]]
     IN
     /\ IF ~run_ok
        THEN /\ UNCHANGED <<nodes, pods>>
             /\ rs' = AfterPod([r EXCEPT !.aborted = @ \cup {pod_id}], pods)
        ELSE /\ nodes' = Relocate(SessionView(rs), rs.node, rs.target_node, pod_id,
                                  pods[pod_id].cpu_cores_req)
             /\ pods' = [pods EXCEPT ![pod_id].node_id = rs.target_node,
                                     ![pod_id].health_status = "running"]
             /\ rs' = AfterPod(r, pods')
     /\ last' = Resp("reschedule_commit", 0, pod_id)
  /\ UNCHANGED <<next_node_id, next_pod_id, sandbox, need_rescheduling, uptime, rc, mon>>

(* The iteration when no node is eligible: the pod is evicted at once *)
reschedule_evict ==
  /\ rs.pc = "pods"
  /\ Head(rs.queue) \in DOMAIN pods
  /\ eligible_nodes(nodes, pods[Head(rs.queue)].cpu_cores_req) = {}
  /\ reschedule_pod(TRUE)

(* Create-pod requests arrive while the rescheduler is at work; no         *)
(* heartbeat and no delete touches the accounting.                         *)
NextBinding ==
  \/ create_node(NodeName(next_node_id), MaxCpu, "worker", TRUE)
  \/ \E r \in 1..MaxCpu : add_pod(PodName(next_pod_id), r, 1, TRUE)
  \/ \E n \in DOMAIN nodes : deregister_node(n)
  \/ reschedule_begin
  \/ reschedule_select_target
  \/ \E run_ok \in BOOLEAN : reschedule_commit(run_ok)
  \/ reschedule_evict
  \/ reschedule_cleanup(TRUE, FALSE)

SpecBinding == Init /\ [][NextBinding]_vars

(* ------------------ the control plane is started again ---------------- *)
(* app.py builds a new DockerMonitor (startup_time = now, flag False, no   *)
(* thread) over the database the previous process left; the start-up       *)
(* cleanup only deletes permanently_failed nodes that have no              *)
(* last_heartbeat, and Node.__init__ always sets one.                      *)
restart_process ==
  /\ uptime' = 0
  /\ need_rescheduling' = FALSE
  /\ rs' = Idle
  /\ rc' = RecoveryIdle
  /\ mon' = NotStarted
  /\ last' = Resp("restart_process", 0, 0)
  /\ UNCHANGED <<nodes, pods, next_node_id, next_pod_id, sandbox>>

GraceSteps == {10, max_heartbeat_interval + 1}

NextRestart ==
  \/ create_node(NodeName(next_node_id), 1, "worker", TRUE)
  \/ \E n \in DOMAIN nodes :
        update_heartbeat(n, SimulatorReport(nodes[n].cpu_cores_total), TRUE)
  \/ monitor_node_health(TRUE)
  \/ send_heartbeats
  \/ \E dt \in GraceSteps : Tick(dt)
  \/ restart_process

SpecRestart == Init /\ [][NextRestart]_vars

(* ======================================================================= *)
(*                                properties                               *)
(* ======================================================================= *)
PF == "permanently_failed"

RECURSIVE SumReq(_)
SumReq(S) ==
  IF S = {} THEN 0
  ELSE LET p == SetMin(S) IN pods[p].cpu_cores_req + SumReq(S \ {p})

RunningPodsOn(n) ==
  {p \in DOMAIN pods : pods[p].node_id = n /\ pods[p].health_status = "running"}

(* Section 4.C, step 1: the candidate set, in the words of the spec *)
Candidate(n, r) ==
  /\ n \in DOMAIN nodes
  /\ nodes[n].node_type = "worker"
  /\ nodes[n].health_status = "healthy"
  /\ nodes[n].kubelet_status = "running"
  /\ nodes[n].container_runtime_status = "running"
  /\ nodes[n].cpu_cores_avail >= r

(* C1 (I1, CPU conservation): in every reachable state every node has      *)
(* cpu_cores_total = cpu_cores_avail + the sum of cpu_cores_req of the      *)
(* running pods bound to it.                                               *)
C1_CpuConservation ==
  \A n \in DOMAIN nodes :
     nodes[n].cpu_cores_total = nodes[n].cpu_cores_avail + SumReq(RunningPodsOn(n))

(* C2 (L3, heartbeat monotonicity): a heartbeat ingested for a node that   *)
(* is permanently_failed leaves its health permanently_failed, whatever    *)
(* the payload.                                                            *)
C2_HeartbeatKeepsPermanentlyFailed ==
  [][\A n \in DOMAIN nodes :
        (/\ nodes[n].health_status = PF
         /\ last'.op = "update_heartbeat"
         /\ last'.id = n)
        => (n \in DOMAIN nodes' /\ nodes'[n].health_status = PF)]_vars

C2_Witness ==
  /\ last.op = "update_heartbeat"
  /\ last.should_terminate
  /\ last.id \in DOMAIN nodes
  /\ nodes[last.id].health_status = PF
  /\ nodes[last.id].docker_container_id = NoHandle

(* C3 (I4, recovery-attempt bound): in every reachable state every node    *)
(* has 0 <= recovery_attempts <= max_recovery_attempts.                    *)
C3_AttemptsWithinCap ==
  \A n \in DOMAIN nodes :
     /\ 0 <= nodes[n].recovery_attempts
     /\ nodes[n].recovery_attempts <= max_recovery_attempts

(* C4 (the cap forces permanently_failed): in no reachable state is a node *)
(* with recovery_attempts >= max_recovery_attempts healthy or recovering.  *)
C4_CapForcesPermanentlyFailed ==
  \A n \in DOMAIN nodes :
     nodes[n].recovery_attempts >= max_recovery_attempts
       => nodes[n].health_status \notin {"healthy", "recovering"}

(* A step that binds pod p to a node: the pod is created, or its node_id   *)
(* changes.                                                                *)
Placed(p) ==
  /\ p \in DOMAIN pods'
  /\ p \in DOMAIN pods => pods'[p].node_id # pods[p].node_id

C6_CreateAndSchedule ==
  [][(last'.op = "add_pod" /\ last'.code = 200) =>
        LET p == last'.id
            r == last'.arg
        IN /\ p \notin DOMAIN pods
           /\ p \in DOMAIN pods'
           /\ pods'[p].cpu_cores_req = r
           /\ pods'[p].health_status = "running"
           /\ LET N == pods'[p].node_id IN
              /\ N \in DOMAIN nodes
              /\ DOMAIN nodes' = DOMAIN nodes
              /\ nodes'[N].cpu_cores_avail = nodes[N].cpu_cores_avail - r
              /\ p \in Range(nodes'[N].pod_ids)
              /\ \A M \in DOMAIN nodes \ {N} : nodes'[M] = nodes[M]]_vars

C6_Witness ==
  /\ last.op = "add_pod"
  /\ last.code = 200
  /\ Cardinality(DOMAIN nodes) = 2
  /\ last.id \in Range(nodes[pods[last.id].node_id].pod_ids)
  /\ nodes[pods[last.id].node_id].cpu_cores_avail = 0

(* C7 (no fit on create): a create-pod whose request no node is a          *)
(* candidate for is answered 400 and leaves nodes and pods as they were.   *)
C7_NoFitRejected ==
  [][(/\ last'.op = "add_pod"
      /\ \A n \in DOMAIN nodes : ~Candidate(n, last'.arg))
        => (last'.code = 400 /\ UNCHANGED <<nodes, pods, next_pod_id>>)]_vars

(* a healthy worker exists, with too little free CPU for the request *)
C7_Witness ==
  /\ last.op = "add_pod"
  /\ last.code = 400
  /\ \E n \in DOMAIN nodes :
        /\ Candidate(n, 1)
        /\ nodes[n].cpu_cores_avail < last.arg

(* C8 (create-pod rollback): a create-pod that fails with a 5xx leaves no  *)
(* pod row and leaves every node's cpu_cores_avail and pod_ids as before.  *)
C8_RollbackLeavesNoPartialPod ==
  [][(last'.op = "add_pod" /\ last'.code = 500)
        => (pods' = pods /\ nodes' = nodes)]_vars

OnFailedNode(p) ==
  /\ p \in DOMAIN pods
  /\ pods[p].node_id \in DOMAIN nodes
  /\ nodes[pods[p].node_id].health_status = PF

(* C11 (pod migration liveness): with every background loop running, a pod *)
(* bound to a node that is permanently_failed is eventually deleted or     *)
(* bound to a healthy node.                                                *)
C11_PodsLeaveFailedNodes ==
  \A p \in PodIds :
     OnFailedNode(p) ~>
        (\/ p \notin DOMAIN pods
         \/ /\ pods[p].node_id \in DOMAIN nodes
            /\ nodes[pods[p].node_id].health_status = "healthy")

(* C12 (L1, idempotent recovery): a reconciler tick that directly follows  *)
(* a reconciler tick, the runtime answering the restart calls the same way *)
(* both times, leaves every node row and the rescheduling flag as the      *)
(* first tick left them.                                                   *)
C12_ReconcilerIdempotent ==
  [][(/\ last.op = "attempt_node_recovery"
      /\ last'.op = "attempt_node_recovery"
      /\ last'.arg = last.arg)
        => (nodes' = nodes /\ need_rescheduling' = need_rescheduling)]_vars

(* The step just taken raised the flag while a rescheduler pass was under  *)
(* way: a deregister of a node that hosts pods, or a heartbeat in which    *)
(* the node reported itself permanently_failed.                            *)
FlagSetDuringPass ==
  /\ rs.pc # "idle"
  /\ need_rescheduling
  /\ last.code = 200
  /\ \/ /\ last.op = "deregister_node"
        /\ Len(nodes[last.id].pod_ids) > 0
     \/ /\ last.op = "update_heartbeat"
        /\ last.should_stop_heartbeat
        /\ ~last.should_terminate

(* C13 (the flag is a monotonic needs-work signal): only the rescheduler   *)
(* clears the flag, and a set of the flag made while a pass is under way   *)
(* is followed by the start of a later pass.                               *)
C13_NoSetIsLost ==
  /\ [][(need_rescheduling /\ ~need_rescheduling')
          => last'.op \in {"reschedule_begin", "reschedule_cleanup"}]_vars
  /\ FlagSetDuringPass ~> (last.op = "reschedule_begin")

(* What ingesting a heartbeat makes of a node row *)
HeartbeatResult(node, payload) ==
  IF node.health_status = PF
  THEN IF node.docker_container_id # NoHandle
       THEN [node EXCEPT !.docker_container_id = NoHandle, !.hb_age = 0]
       ELSE node
  ELSE HeartbeatRow(node, payload)

(* C14 (heartbeat ingest and reconciler branch are serialized): when a     *)
(* reconciler branch on node N ends and one heartbeat for N was ingested   *)
(* during the branch, N's row is the row that the heartbeat followed by    *)
(* the branch, or the branch followed by the heartbeat, would have made of *)
(* the row the branch started from.                                        *)
C14_HeartbeatAndRecoverySerialized ==
  [][(last'.op = "recovery_write" /\ last'.arg = 1) =>
        LET n == rc.node
            after_hb == HeartbeatResult(rc.row, rc.inflight)
        IN \/ nodes'[n] = HeartbeatResult(
                            RecoveryRow(rc.row, rc.status, rc.exists, rc.start_ok),
                            rc.inflight)
           \/ nodes'[n] = RecoveryRow(after_hb, rc.status, rc.exists, rc.start_ok)]_vars

(* C15 (permanently_failed is terminal): no step changes the health of a   *)
(* node that is permanently_failed and stays in the store.                 *)
C15_PermanentlyFailedIsTerminal ==
  [][\A n \in DOMAIN nodes :
        (nodes[n].health_status = PF /\ n \in DOMAIN nodes')
          => nodes'[n].health_status = PF]_vars

(* C16 (node creation lifecycle): a node that create_node has just stored  *)
(* has health initializing, it is not a scheduling candidate, and a node   *)
(* that is initializing becomes healthy only by a heartbeat for it.        *)
C16_CreatedInitializing ==
  [][/\ (last'.op = "create_node" /\ last'.code = 201) =>
          /\ nodes'[last'.id].health_status = "initializing"
          /\ \A cpu \in 1..MaxCpu : ~Eligible(nodes', last'.id, cpu)
     /\ \A n \in DOMAIN nodes :
          (/\ nodes[n].health_status = "initializing"
           /\ n \in DOMAIN nodes'
           /\ nodes'[n].health_status = "healthy")
            => (last'.op = "update_heartbeat" /\ last'.id = n)]_vars

NodeNameTaken(name) == \E n \in DOMAIN nodes : nodes[n].name = name

PodNameTaken(name) == \E p \in DOMAIN pods : pods[p].name = name

(* C18 (I5, name uniqueness): no two nodes and no two pods share a name; a *)
(* create-node request with a name that is taken is answered 409, a        *)
(* create-pod request with a name that is taken is refused, and both leave *)
(* the store as it was, the nodes' cpu_cores_avail included.               *)
C18_NamesUnique ==
  /\ [](/\ \A m, n \in DOMAIN nodes : nodes[m].name = nodes[n].name => m = n
        /\ \A p, q \in DOMAIN pods : pods[p].name = pods[q].name => p = q)
  /\ [][\A name \in Names, cpu \in 1..MaxCpu :
          /\ (NodeNameTaken(name) /\ create_node(name, cpu, "worker", TRUE))
               => (last'.code = 409 /\ nodes' = nodes /\ pods' = pods)
          /\ (PodNameTaken(name) /\ add_pod(name, cpu, 1, TRUE))
               => (last'.code >= 400 /\ nodes' = nodes /\ pods' = pods)]_vars

(* C19 (available-CPU range): every node has                               *)
(* 0 <= cpu_cores_avail <= cpu_cores_total in every reachable state.       *)
C19_AvailWithinRange ==
  \A n \in DOMAIN nodes :
     /\ 0 <= nodes[n].cpu_cores_avail
     /\ nodes[n].cpu_cores_avail <= nodes[n].cpu_cores_total

(* C20 (heartbeat for an unknown node): a heartbeat for a node id that is  *)
(* not in the store is answered 404 with should_stop_heartbeat true, and   *)
(* the node rows, the pods, the sandboxes and the rescheduling flag are    *)
(* left as they were.                                                      *)
C20_UnknownNodeHeartbeat ==
  [][(last'.op = "update_heartbeat" /\ last'.id \notin DOMAIN nodes) =>
        /\ last'.code = 404
        /\ last'.should_stop_heartbeat
        /\ nodes' = nodes /\ pods' = pods /\ sandbox' = sandbox
        /\ need_rescheduling' = need_rescheduling]_vars

(* The sandbox of a deleted node still sends a heartbeat while another     *)
(* node is in the store and a rescheduling pass is requested.              *)
C20_Witness ==
  /\ last.op = "update_heartbeat" /\ last.code = 404
  /\ last.id < next_node_id
  /\ last.id \notin DOMAIN nodes
  /\ DOMAIN nodes # {}
  /\ need_rescheduling

BoundPods(n) == {p \in DOMAIN pods : pods[p].node_id = n}

(* C22 (delete-node guard): DELETE /nodes/{id} on a node that is not       *)
(* permanently_failed and has a pod bound to it is answered 400 and        *)
(* deletes nothing; a node leaves the store only if no pod is bound to it  *)
(* or it is permanently_failed.                                            *)
C22_DeleteNodeGuard ==
  [][\A n \in DOMAIN nodes :
        /\ (/\ last'.op = "delete_node" /\ last'.id = n
            /\ nodes[n].health_status # PF
            /\ BoundPods(n) # {})
             => (last'.code = 400 /\ nodes' = nodes /\ pods' = pods)
        /\ n \notin DOMAIN nodes'
             => (nodes[n].health_status = PF \/ BoundPods(n) = {})]_vars

(* C23 (delete-pod effect): after a successful DELETE /pods/{id} of a pod  *)
(* with request r bound to node N the pod row, with the containers,        *)
(* volumes and config items that hang on it, is gone, the pod id is not in *)
(* N's pod_ids, N.cpu_cores_avail is r higher, and every other node is as  *)
(* it was.                                                                 *)
C23_DeletePodEffect ==
  [][\A p \in DOMAIN pods :
        (last'.op = "delete_pod" /\ last'.id = p /\ last'.code = 200) =>
          LET N == pods[p].node_id
              r == pods[p].cpu_cores_req
          IN /\ p \notin DOMAIN pods'
             /\ \A q \in DOMAIN pods \ {p} : q \in DOMAIN pods' /\ pods'[q] = pods[q]
             /\ DOMAIN nodes' = DOMAIN nodes
             /\ p \notin Range(nodes'[N].pod_ids)
             /\ nodes'[N].cpu_cores_avail = nodes[N].cpu_cores_avail + r
             /\ \A m \in DOMAIN nodes \ {N} : nodes'[m] = nodes[m]]_vars

(* A pod was deleted from a node that still hosts another pod, with a      *)
(* second node in the store.                                               *)
C23_Witness ==
  /\ last.op = "delete_pod" /\ last.code = 200
  /\ Cardinality(DOMAIN nodes) = 2
  /\ \E q \in DOMAIN pods :
        /\ pods[q].node_id \in DOMAIN nodes
        /\ q \in Range(nodes[pods[q].node_id].pod_ids)

(* C24 (validation without state change): a create-pod request with no    *)
(* name, with a cpu_cores_req that is zero or negative, or with an empty   *)
(* containers list, and a create-node request with no name, a              *)
(* cpu_cores_avail that is zero or negative or an unknown node_type, is    *)
(* answered with a 4xx status and leaves nodes and pods as they were.      *)
C24_InvalidRequestsRejected ==
  [][/\ \A name \in {"", PodName(next_pod_id)}, r \in CpuInputs, k \in 0..1 :
          ((name = "" \/ r <= 0 \/ k = 0) /\ add_pod(name, r, k, TRUE))
            => (last'.code \in 400..499 /\ nodes' = nodes /\ pods' = pods)
     /\ \A name \in {"", NodeName(next_node_id)}, cpu \in CpuInputs, t \in NodeTypeInputs :
          ((name = "" \/ cpu <= 0 \/ t \notin {"worker", "master"})
             /\ create_node(name, cpu, t, TRUE))
            => (last'.code \in 400..499 /\ nodes' = nodes /\ pods' = pods)]_vars

(* The rescheduler threads that are inside the body of an iteration *)
ActiveIterations == {t \in DOMAIN mon.loops : mon.loops[t] = "iterating"}

(* C25 (single rescheduler): at most one rescheduler iteration is active   *)
(* at any time, whatever the sequence of start() and stop() calls.         *)
C25_SingleRescheduler == Cardinality(ActiveIterations) <= 1

(* C26 (resource accounting frame): a node's cpu_cores_avail changes only  *)
(* in a step of create-pod, delete-pod or the rescheduler's handling of a  *)
(* pod; every other step, heartbeat ingest included, leaves it as it was.  *)
C26_AvailChangesOnlyByBinding ==
  [][\A n \in DOMAIN nodes \cap DOMAIN nodes' :
        nodes'[n].cpu_cores_avail # nodes[n].cpu_cores_avail
          => last'.op \in {"add_pod", "delete_pod", "reschedule_pod"}]_vars

(* The loops that detect a failure: the sandbox sweep and the two          *)
(* heartbeat sweeps.                                                       *)
Detectors == {"monitor_containers", "monitor_node_health", "send_heartbeats"}

(* C27 (failure-detection transition): a sweep step that moves a node from *)
(* healthy to failed adds exactly 1 to the node's recovery_attempts and    *)
(* leaves the rescheduling flag set, whichever sweep takes the step.       *)
C27_DetectionCountsAndFlags ==
  [][\A n \in DOMAIN nodes :
        (/\ last'.op \in Detectors
         /\ nodes[n].health_status = "healthy"
         /\ nodes'[n].health_status = "failed")
        => /\ nodes'[n].recovery_attempts = nodes[n].recovery_attempts + 1
           /\ need_rescheduling']_vars

(* The two loops that compare a node's heartbeat age with its limit *)
HeartbeatSweeps == {"monitor_node_health", "send_heartbeats"}

(* C28 (heartbeat-lapse boundary): no sweep moves a healthy node with a    *)
(* running sandbox to failed while its heartbeat age is at most            *)
(* max_heartbeat_interval, and a heartbeat sweep that finds a healthy node *)
(* with a greater age moves it to failed.                                  *)
C28_LapseBoundary ==
  [][\A n \in DOMAIN nodes :
        /\ (/\ last'.op \in Detectors
            /\ nodes[n].health_status = "healthy"
            /\ get_container_info(nodes[n].docker_container_id) = "running"
            /\ nodes[n].hb_age <= max_heartbeat_interval)
             => nodes'[n].health_status = "healthy"
        /\ (/\ last'.op \in HeartbeatSweeps
            /\ nodes[n].health_status = "healthy"
            /\ nodes[n].hb_age > max_heartbeat_interval)
             => nodes'[n].health_status = "failed"]_vars

(* C28 as amended: as C28, except that monitor_node_health moves the node  *)
(* to permanently_failed instead of failed when the increment it makes     *)
(* brings recovery_attempts to max_recovery_attempts.                      *)
C28_LapseBoundaryWithCap ==
  [][\A n \in DOMAIN nodes :
        /\ (/\ last'.op \in Detectors
            /\ nodes[n].health_status = "healthy"
            /\ get_container_info(nodes[n].docker_container_id) = "running"
            /\ nodes[n].hb_age <= max_heartbeat_interval)
             => nodes'[n].health_status = "healthy"
        /\ (/\ last'.op \in HeartbeatSweeps
            /\ nodes[n].health_status = "healthy"
            /\ nodes[n].hb_age > max_heartbeat_interval)
             => IF /\ last'.op = "monitor_node_health"
                   /\ nodes[n].recovery_attempts + 1 >= max_recovery_attempts
                THEN nodes'[n].health_status = "permanently_failed"
                ELSE nodes'[n].health_status = "failed"]_vars

(* A heartbeat sweep past the startup grace period has looked at a healthy *)
(* node whose heartbeat age is exactly max_heartbeat_interval and whose    *)
(* sandbox runs, and has left it healthy.                                  *)
C28_Witness ==
  /\ last.op \in HeartbeatSweeps
  /\ uptime >= STARTUP_GRACE_PERIOD
  /\ \E n \in DOMAIN nodes :
        /\ nodes[n].health_status = "healthy"
        /\ nodes[n].hb_age = max_heartbeat_interval
        /\ get_container_info(nodes[n].docker_container_id) = "running"

(* The cluster-wide sum of cpu_cores_req *)
TotalReq == SumReq(DOMAIN pods)

(* C29 (relocation effect): when the rescheduler relocates pod R with      *)
(* request r from the permanently_failed node E to F, R's id is not in E's *)
(* pod_ids and is in F's, F.cpu_cores_avail is r lower, R.node_id = F,     *)
(* R.health = running, and the sum of cpu_cores_req over all pods is as    *)
(* before.                                                                 *)
C29_RelocationEffect ==
  [][\A R \in DOMAIN pods :
        (/\ last'.op = "reschedule_pod" /\ last'.id = R
         /\ R \in DOMAIN pods'
         /\ pods'[R].node_id # pods[R].node_id)
        => LET E == pods[R].node_id
               F == pods'[R].node_id
               r == pods[R].cpu_cores_req
           IN /\ E = rs.node
              /\ nodes[E].health_status = PF
              /\ R \notin Range(nodes'[E].pod_ids)
              /\ R \in Range(nodes'[F].pod_ids)
              /\ nodes'[F].cpu_cores_avail = nodes[F].cpu_cores_avail - r
              /\ pods'[R].health_status = "running"
              /\ TotalReq' = TotalReq]_vars

(* The rescheduler has just moved a pod from the failed node it is         *)
(* draining to a healthy node that lists it.                               *)
C29_Witness ==
  /\ last.op = "reschedule_pod"
  /\ last.id \in DOMAIN pods
  /\ \E b \in rs.bound :
        /\ b[1] = last.id
        /\ b[2] \in DOMAIN nodes
        /\ pods[last.id].node_id # b[2]
        /\ nodes[b[2]].health_status = PF
  /\ nodes[pods[last.id].node_id].health_status = "healthy"
  /\ last.id \in Range(nodes[pods[last.id].node_id].pod_ids)

(* C30 (eviction effect): when the rescheduler finds no eligible node for  *)
(* pod R on the permanently_failed node E, R's row (with the containers,   *)
(* volumes and config items that hang on it) is deleted and R's id leaves  *)
(* E's pod_ids; no healthy node's cpu_cores_avail or pod_ids changes, and  *)
(* the sum of cpu_cores_req over all pods goes down by R's request.        *)
C30_EvictionEffect ==
  [][\A R \in DOMAIN pods :
        (/\ last'.op = "reschedule_pod" /\ last'.id = R
         /\ eligible_nodes(nodes, pods[R].cpu_cores_req) = {})
        => LET E == pods[R].node_id
           IN /\ E = rs.node
              /\ nodes[E].health_status = PF
              /\ R \notin DOMAIN pods'
              /\ \A q \in DOMAIN pods \ {R} : q \in DOMAIN pods' /\ pods'[q] = pods[q]
              /\ R \notin Range(nodes'[E].pod_ids)
              /\ \A n \in DOMAIN nodes :
                    nodes[n].health_status = "healthy" => nodes'[n] = nodes[n]
              /\ TotalReq' = TotalReq - pods[R].cpu_cores_req]_vars

(* The rescheduler has just deleted a pod of the failed node it is         *)
(* draining while a healthy node, too small for the pod, is in the store.  *)
C30_Witness ==
  /\ last.op = "reschedule_pod" /\ last.arg = 1
  /\ last.id \notin DOMAIN pods
  /\ rs.node \in DOMAIN nodes
  /\ nodes[rs.node].health_status = PF
  /\ \E n \in DOMAIN nodes : nodes[n].health_status = "healthy"

(* The rescheduler has just aborted the relocation of pod p *)
JustAborted(p) == last.op = "reschedule_pod" /\ last.id = p /\ p \in rs.aborted

(* C31 (aborted relocation): a rescheduler step that aborts the relocation *)
(* of a pod (the target's /run_pod failed) leaves every node row and every *)
(* pod row as it was, and the pod is in the pod queue of a later tick.     *)
C31_AbortedRelocationRetried ==
  /\ [][(last'.op = "reschedule_pod" /\ rs'.aborted # rs.aborted)
          => (nodes' = nodes /\ pods' = pods)]_vars
  /\ \A p \in PodIds :
        JustAborted(p) ~> (rs.pc = "pods" /\ p \in Range(rs.queue))

(* Node n enters permanently_failed in this step *)
EntersPermanentFailure(n) ==
  /\ n \in DOMAIN nodes /\ n \in DOMAIN nodes'
  /\ nodes[n].health_status # "permanently_failed"
  /\ nodes'[n].health_status = "permanently_failed"

(* C32 (entry into permanently_failed): a node enters permanently_failed   *)
(* only in a step where it was failed before (or is moved to failed by the *)
(* health sweep in that very step) and its recovery_attempts is at least   *)
(* max_recovery_attempts; no operation does it below the cap.              *)
C32_PermanentFailureOnlyAtCap ==
  [][\A n \in NodeIds :
        EntersPermanentFailure(n)
          => /\ nodes'[n].recovery_attempts >= max_recovery_attempts
             /\ \/ nodes[n].health_status = "failed"
                \/ last'.op = "monitor_node_health"]_vars

(* C33 (recovery goes through recovering): no single step changes a node's *)
(* health from failed to healthy; a failed node becomes healthy only after *)
(* it has been recovering.                                                 *)
C33_NoDirectFailedToHealthy ==
  [][\A n \in NodeIds :
        (n \in DOMAIN nodes /\ n \in DOMAIN nodes'
           /\ nodes[n].health_status = "failed")
          => nodes'[n].health_status # "healthy"]_vars

(* Every start_container call of the tick fails *)
StartFails == [n \in NodeIds |-> FALSE]

(* Node n is on the reconciler's failure branch: failed, below the cap,    *)
(* with a sandbox handle whose sandbox is absent or not running            *)
OnFailureBranch(n) ==
  /\ n \in DOMAIN nodes
  /\ nodes[n].health_status = "failed"
  /\ nodes[n].recovery_attempts < max_recovery_attempts
  /\ nodes[n].docker_container_id # NoHandle
  /\ get_container_info(nodes[n].docker_container_id) # "running"

(* C34 (reconciler failure branch): when the reconciler handles a failed   *)
(* node below the cap whose sandbox is absent or whose start_container     *)
(* fails, the stored recovery_attempts after the tick is exactly one more; *)
(* the node stays failed unless the new value reaches the cap, and then it *)
(* is permanently_failed and the rescheduling flag is set.                 *)
C34_FailureBranchCountsAttempt ==
  [][\A n \in NodeIds :
        (OnFailureBranch(n)
           /\ \E drv_ok \in BOOLEAN : attempt_node_recovery(StartFails, drv_ok))
          => /\ nodes'[n].recovery_attempts = nodes[n].recovery_attempts + 1
             /\ IF nodes'[n].recovery_attempts >= max_recovery_attempts
                THEN /\ nodes'[n].health_status = "permanently_failed"
                     /\ need_rescheduling'
                ELSE nodes'[n].health_status = "failed"]_vars

(* The reconciler moves node n from failed to recovering in this step *)
Recovered(n) ==
  /\ n \in DOMAIN nodes /\ n \in DOMAIN nodes'
  /\ last'.op = "attempt_node_recovery"
  /\ nodes[n].health_status = "failed"
  /\ nodes'[n].health_status = "recovering"

(* C35 (recovery success leaves the counter alone): when the reconciler    *)
(* finds the sandbox running or restarts it, the node becomes recovering   *)
(* (last_heartbeat reset on a restart) with recovery_attempts unchanged,   *)
(* and the heartbeat that makes it healthy does not change the counter     *)
(* either.                                                                 *)
C35_RecoveryKeepsAttempts ==
  [][\A n \in NodeIds :
        /\ Recovered(n)
             => /\ nodes'[n].recovery_attempts = nodes[n].recovery_attempts
                /\ (sandbox[nodes[n].docker_container_id] # "running"
                      => nodes'[n].hb_age = 0)
        /\ (n \in DOMAIN nodes /\ last'.op = "update_heartbeat" /\ last'.id = n
              /\ nodes[n].health_status = "recovering")
             => nodes'[n].recovery_attempts = nodes[n].recovery_attempts]_vars

(* C36 (escalation terminates): while the reconciler keeps running, every  *)
(* failed node that receives no further heartbeat eventually becomes       *)
(* recovering or permanently_failed, whatever start_container answers and  *)
(* whether or not the node has a sandbox handle.                           *)
C36_FailedNodeEventuallySettles ==
  \A n \in NodeIds :
     (n \in DOMAIN nodes /\ nodes[n].health_status = "failed")
       ~> (/\ n \in DOMAIN nodes
           /\ nodes[n].health_status \in {"recovering", "permanently_failed"})

(* C37 (no over-commit): under every interleaving of binding operations on *)
(* a node (create-pod and relocation), the sum of cpu_cores_req over the   *)
(* pods bound to the node never exceeds cpu_cores_total, and no decrement  *)
(* is lost: cpu_cores_avail is at most cpu_cores_total minus that sum.     *)
C37_NoOverCommit ==
  \A n \in DOMAIN nodes :
     /\ SumReq(BoundPods(n)) <= nodes[n].cpu_cores_total
     /\ nodes[n].cpu_cores_avail <= nodes[n].cpu_cores_total - SumReq(BoundPods(n))

(* C38 (startup grace): while the control plane has been up for less than  *)
(* STARTUP_GRACE_PERIOD seconds, no heartbeat-lapse sweep, whichever loop   *)
(* runs it, moves a node to failed.                                        *)
C38_StartupGrace ==
  [][(uptime < STARTUP_GRACE_PERIOD
        /\ last'.op \in {"monitor_node_health", "send_heartbeats"})
       => \A n \in DOMAIN nodes :
             nodes[n].health_status # "failed"
               => nodes'[n].health_status # "failed"]_vars

(* C39 (hosted-set consistency): for every node, the set of ids in its     *)
(* pod_ids equals the set of ids of the pods whose node_id is that node,   *)
(* in every state reached by interleaving the handlers, heartbeat ingest   *)
(* included.                                                               *)
C39_HostedSetConsistent ==
  \A n \in DOMAIN nodes : Range(nodes[n].pod_ids) = BoundPods(n)

(* The operations that are request handlers *)
RequestHandlers ==
  {"create_node", "update_heartbeat", "delete_node", "simulate_node_failure",
   "deregister_node", "force_cleanup_node", "add_pod", "delete_pod"}

(* C40 (recovering is left only by request handlers): a step that changes  *)
(* the health or the recovery_attempts of a recovering node, or removes    *)
(* the node, is a heartbeat ingest, a simulate-failure, a deregister or a  *)
(* delete of that node; no background loop does it, so a recovering node   *)
(* that gets none of these stays recovering.                               *)
C40_RecoveringLeftOnlyByRequests ==
  [][\A n \in DOMAIN nodes :
        (/\ nodes[n].health_status = "recovering"
         /\ \/ n \notin DOMAIN nodes'
            \/ nodes'[n].health_status # "recovering"
            \/ nodes'[n].recovery_attempts # nodes[n].recovery_attempts)
          => /\ last'.op \in {"update_heartbeat", "simulate_node_failure",
                              "deregister_node", "delete_node"}
             /\ last'.id = n]_vars

(* A health sweep past the grace period has just passed over a recovering  *)
(* node whose heartbeat has lapsed                                         *)
C40_Witness ==
  \E n \in DOMAIN nodes :
     /\ nodes[n].health_status = "recovering"
     /\ nodes[n].hb_age > max_heartbeat_interval
     /\ uptime >= STARTUP_GRACE_PERIOD
     /\ last.op \in {"monitor_node_health", "send_heartbeats"}

====
